---- MODULE Spec2Model ----
(***************************************************************************)
(* Model of the PDF ingestion and query pipeline of rag-docs.              *)
(*                                                                         *)
(*   SpecClient  one call of a remote-service client                       *)
(*               (geminiEmbeddingsBatch, geminiEmbed, pineconeUpsertBatch) *)
(*               against every upstream answer: statuses and JSON bodies.  *)
(*                                                                         *)
(*   Spec        one request to the ingestion handler POST of the extract  *)
(*               route, every await a step: page extraction, embed call,   *)
(*               upsert call, each of which may throw.                     *)
(*                                                                         *)
(*   SpecRerun   request after request on the same stored document, every  *)
(*               external call returning.                                  *)
(*                                                                         *)
(*   SpecConfig  Spec in an environment where credentials may be missing.  *)
(*                                                                         *)
(*   SpecExtract Spec over a document whose pages may fail to extract.     *)
(*                                                                         *)
(*   SpecQuery   one call of fetchMatchingResumes of the chat route: embed *)
(*               the query, ask the index, return the matches.             *)
(*                                                                         *)
(*   SpecSplit   one call of recursiveSplit on a text of a few characters. *)
(*                                                                         *)
(*   SpecAssemble  recursiveSplit followed by assembleChunks on the same   *)
(*               text, with and without overlap.                           *)
(*                                                                         *)
(*   SpecWindows the fixed-width windows of the merged-text fallback.      *)
(*                                                                         *)
(*   SpecAny     Spec with any numeric batchSize and previewChunks, every  *)
(*               external call returning, under weak fairness.             *)
(*                                                                         *)
(*   SpecIds     the record ids derived for chunks of several documents.   *)
(*                                                                         *)
(*   SpecUpload  the upload column of the UI: selection, Cancel, Upload    *)
(*               clicks and the returns of the two requests of a call.     *)
(*                                                                         *)
(* A JSON body is [shape, items]: `shape' says under which key the list of *)
(* items sits, `items' is the list of item kinds.  The vector carried by   *)
(* the item at position i of the upstream list is written i, so a result   *)
(* <<1, 3>> is the vectors of the first and the third upstream item.       *)
(***************************************************************************)
EXTENDS Integers, Sequences, FiniteSets, TLC

\* ------------------------------------------------------------------ bounds
MaxTexts == 2
MaxAttempts == 3
MaxPages == 3
MaxDocChunks == 5
MaxBatch == 3
MaxRuns == 2
MaxPreview == 2
MaxStored == 3
MaxTopK == 2
MaxLen == 5
MaxBudget == 4
MaxOverlap == 2
MaxWindows == 4
MaxTail == 3
MaxDerived == 2
MaxUploads == 3

\* ------------------------------------------------------- client call state
VARIABLES
    fn,          \* which client function is called
    nTexts,      \* texts.length (vectors.length for the upsert client)
    maxRetries,  \* the maxRetries parameter
    apiKey,      \* the client's credentials are configured
    attempt,     \* the loop counter `attempt'
    sent,        \* status of the response to each request sent so far
    cpc,         \* "idle" | "waiting" (a fetch is outstanding) | "returned" | "threw"
    result,      \* the returned embeddings (upstream positions)
    err,         \* the error thrown
    resp         \* digest of the body of the last OK response parsed

cvars == <<fn, nTexts, maxRetries, apiKey, attempt, sent, cpc, result, err, resp>>

\* ---------------------------------------------------- ingestion state
VARIABLES
    bucket,        \* body.bucket
    path,          \* body.path
    doc,           \* the stored document: chunks each page (or window) yields
    paged,         \* the PDF proxy reports its page count (totalPages)
    batchSize,     \* body.batchSize of the current request
    run,           \* the number of the current request
    pc,            \* "idle" | "extract" | "merged" | "embed" | "upsert" | "responded"
    p,             \* the page p / pseudoPage in process
    i,             \* the batch offset i
    vectors,       \* the vectors of the outstanding upsert call
    insertedCount, \* insertedCount
    response,      \* the HTTP response of the handler
    index,         \* the vector index: record id -> record
    calls,         \* the embed and upsert calls of this request, in call order
    upserted,      \* the records of this request's acknowledged upserts, in order
    failed,        \* the call of this request that threw, and how many calls there were
    runs,          \* the finished requests: outcome, parameters, records, index size
    previewChunks, \* body.previewChunks
    preview,       \* the sample `preview' of the response
    tokenizer,     \* "none" | "live" | "freed": the tokenizer of this request
    inflight,      \* the embed and upsert calls that have not settled
    geminiKey,     \* GEMINI_API_KEY is configured
    pineconeKey,   \* PINECONE_API_URL and PINECONE_API_KEY are configured
    sentTo,        \* the services this request has sent an HTTP request to
    lostPages      \* the pages whose text extraction failed in this request

ivars == <<bucket, path, doc, paged, batchSize, run, pc, p, i, vectors,
           insertedCount, response, index, calls, upserted, failed, runs,
           previewChunks, preview, tokenizer, inflight, geminiKey, pineconeKey,
           sentTo, lostPages>>

\* ---------------------------------------------------------- query state
VARIABLES
    qpc,        \* "idle" | "embedding" | "querying" | "returned" | "threw"
    stored,     \* what the index holds for the query, best score first
    topK,       \* the number of matches the caller wants
    asked,      \* the topK sent to the index
    search,     \* the index's answer: search.matches
    returned,   \* the list fetchMatchingResumes returns
    qerr        \* which upstream call failed: "none" | "embed" | "query"

qvars == <<qpc, stored, topK, asked, search, returned, qerr>>

\* ------------------------------------------------------- splitter state
VARIABLES
    input,      \* the text given to recursiveSplit, a sequence of characters
    encoding,   \* which tokenizer counts the tokens
    maxTokens,  \* the budget maxTokens
    segments,   \* what recursiveSplit returned
    spc         \* "idle" | "done"

svars == <<input, encoding, maxTokens, segments, spc>>

\* ------------------------------------------------------ assembler state
VARIABLES
    overlapTokens, \* the overlapTokens given to assembleChunks
    assembled,     \* the chunks assembleChunks returned
    apc            \* "idle" | "done"

avars == <<overlapTokens, assembled, apc>>

\* ------------------------------------------- pseudo-pagination state
VARIABLES
    fullLength,  \* fullText.length
    cursor,      \* cursor
    pseudoPage,  \* pseudoPage
    windows      \* the windows processed so far: slice bounds, page, first chunk index

wvars == <<fullLength, cursor, pseudoPage, windows>>

\* ------------------------------------------------ record id derivation
VARIABLES
    derived      \* the ids derived so far, each with the tuple it was derived from

dvars == <<derived>>

\* ----------------------------------------------------- upload UI state
VARIABLES
    supabaseClient, \* the storage client was created (its settings are present)
    selectedFile,   \* the name of the selected file, "none" for null
    uiStatus,       \* state.status of UploadColumn
    ops,            \* the uploadSelectedFile calls that have not finished, each at its await
    started         \* how many uploadSelectedFile calls went past ensureClient

uvars == <<supabaseClient, selectedFile, uiStatus, ops, started>>

vars == <<cvars, ivars, qvars, svars, avars, wvars, dvars, uvars>>

\* what every action of one part of the program leaves alone
notClient == <<ivars, qvars, svars, avars, wvars, dvars, uvars>>
notIngest == <<cvars, qvars, svars, avars, wvars, dvars, uvars>>
notQuery == <<cvars, ivars, svars, avars, wvars, dvars, uvars>>
notSplit == <<cvars, ivars, qvars, avars, wvars, dvars, uvars>>
notAssemble == <<cvars, ivars, qvars, wvars, dvars, uvars>>
notWindows == <<cvars, ivars, qvars, svars, avars, dvars, uvars>>
notIds == <<cvars, qvars, svars, avars, wvars, uvars>>
notUpload == <<cvars, ivars, qvars, svars, avars, wvars, dvars>>

AssembleIdle ==
    /\ overlapTokens = 0
    /\ assembled = <<>>
    /\ apc = "done"

WindowsIdle ==
    /\ fullLength = 0
    /\ cursor = 0
    /\ pseudoPage = 1
    /\ windows = <<>>

IdsIdle == derived = {}

UploadIdle ==
    /\ supabaseClient = TRUE
    /\ selectedFile = "none"
    /\ uiStatus = "idle"
    /\ ops = {}
    /\ started = 0

QueryIdle ==
    /\ qpc = "returned"
    /\ stored = <<>>
    /\ topK = 1
    /\ asked = 0
    /\ search = <<>>
    /\ returned = <<>>
    /\ qerr = "none"

SplitIdle ==
    /\ input = <<>>
    /\ encoding = "chars"
    /\ maxTokens = 0
    /\ segments = <<>>
    /\ spc = "done"

\* ------------------------------------------------------------ JSON bodies
\* arr    [0.1, ...]                  emb    {embedding: [0.1, ...]}
\* vec    {vector: [0.1, ...]}        val    {values: [0.1, ...]}
\* embval {embedding: {values: [..]}} nested {foo: [0.1, ...]}
\* junk   {error: "x"}                null   null
\* empty  []
Kinds == {"arr", "emb", "vec", "val", "embval", "nested", "junk", "null", "empty"}

\* {embeddings: items}, {embedding: item}, {result: {embeddings: items}},
\* {result: items}, {data: items}, {foo: items}, and text that is not JSON
ListShapes == {"embeddings", "result.embeddings", "result", "data", "other"}
Shapes == ListShapes \cup {"embedding", "badjson"}

MaxItems == MaxTexts + 1

\* The bodies enumerated: arr and vec are left out of them, every branch of both
\* parsers treating arr as it treats emb, and vec as it treats val.
InputKinds == Kinds \ {"arr", "vec"}

ItemLists == UNION {[1..k -> InputKinds] : k \in 0..MaxItems}

Bodies ==
    {[shape |-> s, items |-> its] : s \in ListShapes, its \in ItemLists}
    \cup {[shape |-> "embedding", items |-> <<k>>] : k \in InputKinds}
    \cup {[shape |-> "badjson", items |-> <<>>]}

\* The positions of the items of `items' whose kind is in `keep', in order.
RECURSIVE Collect(_, _, _)
Collect(items, k, keep) ==
    IF k > Len(items) THEN <<>>
    ELSE (IF items[k] \in keep THEN <<k>> ELSE <<>>) \o Collect(items, k + 1, keep)

HasKind(items, kind) == \E k \in 1..Len(items) : items[k] = kind

\* Array.isArray(it.embedding) | Array.isArray(it) | it.vector | it.values
BatchFullKinds == {"emb", "arr", "empty", "vec", "val"}
\* Array.isArray(it.embedding) | Array.isArray(it)
BatchShortKinds == {"emb", "arr", "empty"}
\* every item that holds a non-empty array of numbers somewhere
WalkKinds == {"arr", "emb", "vec", "val", "embval", "nested"}
\* normalizeEmbedding(value) # null
NormKinds == {"arr", "emb", "vec", "val", "embval"}

Thrown(kind, status) == [kind |-> kind, status |-> status]
NoErr == Thrown("none", 0)

Ok(vecs) == [ok |-> TRUE, vecs |-> vecs, err |-> NoErr]
Fail(kind) == [ok |-> FALSE, vecs |-> <<>>, err |-> Thrown(kind, 0)]

\* geminiEmbeddingsBatch: the embeddings collected from the parsed body j.
BatchCollect(body) ==
    LET its == body.items IN
    CASE body.shape = "embeddings" -> Collect(its, 1, BatchFullKinds)
      [] body.shape = "embedding" ->
            IF its[1] \in {"arr", "empty"} THEN <<1>>
            ELSE Collect(its, 1, WalkKinds)
      [] body.shape \in {"result.embeddings", "result", "data"} ->
            Collect(its, 1, BatchShortKinds)
      [] OTHER -> Collect(its, 1, WalkKinds)

\* it.embedding of a null item is a TypeError
BatchThrows(body) ==
    /\ body.shape \in {"embeddings", "result.embeddings", "result", "data"}
    /\ HasKind(body.items, "null")

\* the acceptance gate of geminiEmbeddingsBatch
BatchGateLoose(embeddings, n) == Ok(embeddings)

BatchGate(embeddings, n) ==
    IF Len(embeddings) = n THEN Ok(embeddings) ELSE Fail("count")

GeminiBatchParse(body, n) ==
    IF body.shape = "badjson" THEN Fail("json")
    ELSE IF BatchThrows(body) THEN Fail("type")
    ELSE BatchGate(BatchCollect(body), n)

\* geminiEmbed: the embeddings pushed by pushEmbedding.
EmbedCollect(body) ==
    LET its == body.items IN
    CASE body.shape \in {"embeddings", "result.embeddings", "data"} ->
            Collect(its, 1, NormKinds)
      [] body.shape = "embedding" ->
            IF its[1] = "null" THEN <<>> ELSE Collect(its, 1, NormKinds)
      [] OTHER -> <<>>

\* geminiEmbed: the arrays found by walk(j).
EmbedWalk(body) == Collect(body.items, 1, WalkKinds)

EmbedFallbackLoose(found, n) ==
    IF Len(found) >= n THEN Ok(found) ELSE Fail("count")

EmbedFallback(found, n) ==
    IF Len(found) >= n THEN Ok(SubSeq(found, 1, n)) ELSE Fail("count")

GeminiEmbedParse(body, n) ==
    IF body.shape = "badjson" THEN Fail("json")
    ELSE IF Len(EmbedCollect(body)) = n THEN Ok(EmbedCollect(body))
    ELSE EmbedFallback(EmbedWalk(body), n)

\* ---------------------------------------------------------------- statuses
Statuses == {200, 400, 429, 500, 503}
IsOk(status) == status >= 200 /\ status <= 299

Fns == {"geminiEmbeddingsBatch", "geminiEmbed", "pineconeUpsertBatch"}
EmbedFns == {"geminiEmbeddingsBatch", "geminiEmbed"}
RetryFns == {"geminiEmbeddingsBatch", "pineconeUpsertBatch"}

\* What the claims read of a parsed body: how many items the upstream list
\* holds, and whether every one of them is or holds an array in some shape
\* (the most generous reading of "normalizes to a vector").
NoResp == [count |-> 0, allNorm |-> FALSE]
Digest(body) ==
    [count |-> Len(body.items),
     allNorm |-> \A k \in 1..Len(body.items) : body.items[k] \notin {"junk", "null"}]

\* ------------------------------------------------------------ the document
Buckets == {"pdf_files"}
Paths == {"", "cv.pdf"}

RECURSIVE Sum(_)
Sum(s) == IF s = <<>> THEN 0 ELSE Head(s) + Sum(Tail(s))

Min(a, b) == IF a <= b THEN a ELSE b

\* The documents: per page (or per window of the merged text) the number of
\* chunks that recursiveSplit and assembleChunks make of its text.
Docs ==
    {d \in UNION {[1..k -> 0..MaxDocChunks] : k \in 0..MaxPages} :
        Sum(d) <= MaxDocChunks}

\* JavaScript's s.slice(from, to) for 0 <= from
Slice(s, from, to) == SubSeq(s, from + 1, Min(to, Len(s)))

PreviewChars == 300
SampleChars == 400
DefaultPreviewChunks == 5

\* chunk number k (from 0) of page pg: its text and its token count
ChunkOf(pg, k) == [text |-> <<pg, k>>, tokenCount |-> k + 1]

\* const chunks = assembleChunks(recursiveSplit(pageText, ...), ...)
PageChunks(pg) == [c \in 1..doc[pg] |-> ChunkOf(pg, c - 1)]

BatchAtWide(chunks, off, b) == Slice(chunks, off, off + b + 1)

\* const batch = chunks.slice(i, i + batchSize)
BatchAt(chunks, off, b) == Slice(chunks, off, off + b)

\* i += batchSize
NextOffset(off, b) == off + b

\* What geminiEmbeddingsBatch(texts) returns when it returns: texts.length
\* vectors, written here as the vector of each text.  SpecClient shows which
\* upstream item each returned vector really is; nothing checked under Spec or
\* SpecRerun reads the values.
EmbedResult(texts) == [k \in 1..Len(texts) |-> [of |-> texts[k]]]

ChunkIndexInBatch(off, idx) == idx

\* const chunkIndex = i + idx
ChunkIndex(off, idx) == off + idx

RecordIdStamped(pg, c) ==
    bucket \o "::" \o path \o "::p" \o ToString(pg) \o "::c" \o ToString(c)
        \o "::" \o ToString(run)

RecordIdNoPage(pg, c) == bucket \o "::" \o path \o "::c" \o ToString(c)

\* const id = `${bucket}::${path}::p${p}::c${chunkIndex}`
RecordId(pg, c) ==
    bucket \o "::" \o path \o "::p" \o ToString(pg) \o "::c" \o ToString(c)

BuildVectorsFirstChunk(embeddings, batch, pg, off) ==
    [k \in 1..Len(embeddings) |->
        LET c == ChunkIndex(off, k - 1) IN
        [id |-> RecordId(pg, c),
         values |-> embeddings[k],
         metadata |-> [bucket |-> bucket,
                       path |-> path,
                       page |-> pg,
                       chunk_index |-> c,
                       token_count |-> batch[1].tokenCount,
                       preview |-> Slice(batch[1].text, 0, PreviewChars)]]]

\* const vectors = embeddings.map((vec, idx) => ...)
BuildVectors(embeddings, batch, pg, off) ==
    [k \in 1..Len(embeddings) |->
        LET c == ChunkIndex(off, k - 1) IN
        [id |-> RecordId(pg, c),
         values |-> embeddings[k],
         metadata |-> [bucket |-> bucket,
                       path |-> path,
                       page |-> pg,
                       chunk_index |-> c,
                       token_count |-> batch[k].tokenCount,
                       preview |-> Slice(batch[k].text, 0, PreviewChars)]]]

Ids(vs) == {vs[k].id : k \in 1..Len(vs)}

\* the index after an acknowledged upsert of vs: a record replaces the one of its id
Upsert(idx, vs) ==
    [id \in DOMAIN idx \cup Ids(vs) |->
        IF id \in Ids(vs)
        THEN LET k == CHOOSE k \in 1..Len(vs) :
                        /\ vs[k].id = id
                        /\ \A m \in (k + 1)..Len(vs) : vs[m].id # id
             IN vs[k]
        ELSE idx[id]]

EmptyIndex == [id \in {} |-> 0]

Reply(status, ok, count) == [status |-> status, ok |-> ok, totalInserted |-> count]
NoReply == Reply(0, FALSE, 0)

ErrorReplyOk(count) == Reply(200, TRUE, count)

\* catch (err): NextResponse.json({ error }, { status: 500 })
ErrorReply(count) == Reply(500, FALSE, 0)

\* NextResponse.json({ ok: true, message: "done", totalInserted, sample })
DoneReply(count) == Reply(200, TRUE, count)

AbortIndexRollback(idx, ups) == [id \in DOMAIN idx \ Ids(ups) |-> idx[id]]

\* what the catch block does to the index: nothing
AbortIndex(idx, ups) == idx

NoFailure == [op |-> "none", at |-> 0]

\* one entry of the response's sample
SampleOf(v, chunk, pg) ==
    [id |-> v.id, page |-> pg, tokenCount |-> chunk.tokenCount,
     textPreview |-> Slice(chunk.text, 0, SampleChars)]

AddPreviewAll(prev, vs, batch, pg, limit) ==
    prev \o [k \in 1..Len(vs) |-> SampleOf(vs[k], batch[k], pg)]

\* for (k = 0; k < vectors.length && preview.length < previewChunks; k++)
\*     preview.push(...)
AddPreview(prev, vs, batch, pg, limit) ==
    LET room == IF limit > Len(prev) THEN limit - Len(prev) ELSE 0
        take == Min(Len(vs), room)
    IN prev \o [k \in 1..take |-> SampleOf(vs[k], batch[k], pg)]

NoAwait(fl) == fl

\* await: the handler goes on only when the call it made has settled
Await(fl) == {}

Call(op, pg, off, size) == [op |-> op, page |-> pg, offset |-> off, size |-> size]

\* The log `calls' keeps the first MaxCalls calls of a request: more than a
\* request with batches of one chunk or more can make.
MaxCalls == 2 * MaxDocChunks + 2
LogCall(log, call) == IF Len(log) < MaxCalls THEN Append(log, call) ELSE log

IngestQuiet ==
    /\ doc = <<>>
    /\ paged = FALSE
    /\ batchSize = 1
    /\ run = 1
    /\ pc = "responded"
    /\ p = 0
    /\ i = 0
    /\ vectors = <<>>
    /\ insertedCount = 0
    /\ response = NoReply
    /\ index = EmptyIndex
    /\ calls = <<>>
    /\ upserted = <<>>
    /\ failed = NoFailure
    /\ runs = <<>>
    /\ previewChunks = DefaultPreviewChunks
    /\ preview = <<>>
    /\ tokenizer = "none"
    /\ inflight = {}
    /\ geminiKey = TRUE
    /\ pineconeKey = TRUE
    /\ sentTo = {}
    /\ lostPages = {}

IngestIdle ==
    /\ bucket = "pdf_files"
    /\ path = "cv.pdf"
    /\ IngestQuiet

ClientIdle ==
    /\ fn = "geminiEmbeddingsBatch"
    /\ nTexts = 0
    /\ maxRetries = 3
    /\ apiKey = TRUE
    /\ attempt = 0
    /\ sent = <<>>
    /\ cpc = "idle"
    /\ result = <<>>
    /\ err = NoErr
    /\ resp = NoResp

InitClient ==
    /\ IngestIdle
    /\ QueryIdle
    /\ SplitIdle
    /\ AssembleIdle
    /\ WindowsIdle
    /\ IdsIdle
    /\ UploadIdle
    /\ fn \in Fns
    /\ nTexts \in 0..MaxTexts
    /\ maxRetries \in (IF fn \in RetryFns THEN 0..MaxAttempts ELSE {1})
    /\ apiKey \in BOOLEAN
    /\ attempt = 0
    /\ sent = <<>>
    /\ cpc = "idle"
    /\ result = <<>>
    /\ err = NoErr
    /\ resp = NoResp

\* The call up to its first fetch.
StartCall ==
    /\ cpc = "idle"
    /\ UNCHANGED notClient
    /\ UNCHANGED <<fn, nTexts, maxRetries, apiKey, sent, resp>>
    /\ IF ~apiKey
       THEN /\ cpc' = "threw"
            /\ err' = Thrown("config", 0)
            /\ UNCHANGED <<attempt, result>>
       ELSE IF fn \in EmbedFns /\ nTexts = 0
       THEN /\ cpc' = "returned"
            /\ result' = <<>>
            /\ UNCHANGED <<attempt, err>>
       ELSE IF fn \in RetryFns /\ ~(0 < maxRetries)
       THEN /\ cpc' = "threw"
            /\ err' = Thrown("exhausted", 0)
            /\ UNCHANGED <<attempt, result>>
       ELSE /\ cpc' = "waiting"
            /\ attempt' = 1
            /\ UNCHANGED <<result, err>>

\* whether a non-OK response is followed by another attempt
RetryOnAny(status, att, ceiling) == att < ceiling

ShouldRetry(status, att, ceiling) == status >= 500 /\ att < ceiling

\* A response with a non-OK status arrives.
ReceiveError(status) ==
    /\ cpc = "waiting"
    /\ ~IsOk(status)
    /\ sent' = Append(sent, status)
    /\ UNCHANGED notClient
    /\ UNCHANGED <<fn, nTexts, maxRetries, apiKey, result, resp>>
    /\ IF fn \in RetryFns /\ ShouldRetry(status, attempt, maxRetries)
       THEN /\ attempt' = attempt + 1
            /\ UNCHANGED <<cpc, err>>
       ELSE /\ cpc' = "threw"
            /\ err' = Thrown("http", status)
            /\ UNCHANGED attempt

\* A response with an OK status and the body `body' arrives.
ReceiveOk(status, body) ==
    /\ cpc = "waiting"
    /\ IsOk(status)
    /\ sent' = Append(sent, status)
    /\ UNCHANGED notClient
    /\ UNCHANGED <<fn, nTexts, maxRetries, apiKey, attempt>>
    /\ LET out == CASE fn = "geminiEmbeddingsBatch" -> GeminiBatchParse(body, nTexts)
                    [] fn = "geminiEmbed" -> GeminiEmbedParse(body, nTexts)
                    [] OTHER -> Ok(<<>>)
       IN /\ cpc' = IF out.ok THEN "returned" ELSE "threw"
          /\ result' = out.vecs
          /\ err' = out.err
          /\ resp' = IF fn \in EmbedFns THEN Digest(body) ELSE NoResp

\* The outstanding fetch rejects (a network error): the call throws.
FetchRejects ==
    /\ cpc = "waiting"
    /\ UNCHANGED notClient
    /\ UNCHANGED <<fn, nTexts, maxRetries, apiKey, attempt, sent, result, resp>>
    /\ cpc' = "threw"
    /\ err' = Thrown("network", 0)

NextClient ==
    \/ StartCall
    \/ FetchRejects
    \/ \E s \in Statuses : ReceiveError(s)
    \/ \E s \in Statuses, b \in Bodies : ReceiveOk(s, b)

SpecClient == InitClient /\ [][NextClient]_vars

\* ---------------------------------------------------------- the ingestion
InitDocument ==
    /\ ClientIdle
    /\ QueryIdle
    /\ SplitIdle
    /\ AssembleIdle
    /\ WindowsIdle
    /\ IdsIdle
    /\ UploadIdle
    /\ bucket \in Buckets
    /\ path \in Paths
    /\ doc \in Docs
    /\ paged \in BOOLEAN
    /\ paged => Len(doc) > 0
    /\ run = 1
    /\ pc = "idle"
    /\ p = 0
    /\ i = 0
    /\ vectors = <<>>
    /\ insertedCount = 0
    /\ response = NoReply
    /\ index = EmptyIndex
    /\ calls = <<>>
    /\ upserted = <<>>
    /\ failed = NoFailure
    /\ runs = <<>>
    /\ preview = <<>>
    /\ tokenizer = "none"
    /\ inflight = {}
    /\ sentTo = {}
    /\ lostPages = {}

\* a request with a batch size of one chunk or more
InitRequest ==
    /\ InitDocument
    /\ batchSize \in 1..MaxBatch

\* every credential configured, the caller chooses previewChunks
Init ==
    /\ InitRequest
    /\ previewChunks \in 0..MaxPreview
    /\ geminiKey = TRUE
    /\ pineconeKey = TRUE

\* every credential configured, previewChunks left to its default
InitDefault ==
    /\ InitRequest
    /\ previewChunks = DefaultPreviewChunks
    /\ geminiKey = TRUE
    /\ pineconeKey = TRUE

\* any of the credentials may be missing from the environment
InitConfig ==
    /\ InitRequest
    /\ previewChunks = DefaultPreviewChunks
    /\ geminiKey \in BOOLEAN
    /\ pineconeKey \in BOOLEAN

Request == <<bucket, path, doc, paged, batchSize, run, previewChunks,
             geminiKey, pineconeKey>>

Records(ups) == {[id |-> ups[k].id, metadata |-> ups[k].metadata] : k \in 1..Len(ups)}

\* The handler responds r: the request ends.  tokenizer.free?.() is on the
\* path to the success response only.
GoEnd(r, ups, idx) ==
    /\ pc' = "responded"
    /\ response' = r
    /\ runs' = Append(runs, [ok |-> r.ok, batchSize |-> batchSize,
                             recs |-> Records(ups),
                             size |-> Cardinality(DOMAIN idx)])
    /\ tokenizer' = IF r.ok THEN "freed" ELSE tokenizer
    /\ inflight' = Await(inflight)
    /\ UNCHANGED <<p, i, calls, sentTo>>

\* await processPage(pg): extractPageTextRobust is outstanding
GoExtract(pg) ==
    /\ pc' = "extract"
    /\ p' = pg
    /\ i' = 0
    /\ tokenizer' = "live"
    /\ inflight' = Await(inflight)
    /\ UNCHANGED <<calls, response, runs, sentTo>>

\* await geminiEmbeddingsBatch(texts) for the batch at offset off of page pg:
\* the client sends its first request unless its key is missing or texts is
\* empty
GoEmbed(pg, off) ==
    LET call == Call("embed", pg, off, Len(BatchAt(PageChunks(pg), off, batchSize)))
    IN /\ pc' = "embed"
       /\ p' = pg
       /\ i' = off
       /\ calls' = LogCall(calls, call)
       /\ tokenizer' = "live"
       /\ inflight' = Await(inflight) \cup {call}
       /\ sentTo' = IF geminiKey /\ call.size > 0 THEN sentTo \cup {"embedder"}
                    ELSE sentTo
       /\ UNCHANGED <<response, runs>>

\* the first window from w on that yields chunks, 0 when there is none
NextWindow(w) ==
    IF \E v \in w..Len(doc) : doc[v] > 0
    THEN CHOOSE v \in w..Len(doc) :
            /\ doc[v] > 0
            /\ \A u \in w..(v - 1) : doc[u] = 0
    ELSE 0

\* The batch loop of page p has ended with count records inserted.
AfterPage(count, ups, idx) ==
    IF paged
    THEN IF p < Len(doc) THEN GoExtract(p + 1)
         ELSE GoEnd(DoneReply(count), ups, idx)
    ELSE IF NextWindow(p + 1) > 0 THEN GoEmbed(NextWindow(p + 1), 0)
         ELSE GoEnd(DoneReply(count), ups, idx)

Outcomes == {"ok", "download", "tooLarge", "badPdf"}

\* POST up to its first await inside the page loop.
Receive(outcome) ==
    /\ pc = "idle"
    /\ UNCHANGED notIngest
    /\ UNCHANGED <<Request, vectors, index, upserted, failed, lostPages>>
    /\ insertedCount' = 0
    /\ preview' = <<>>
    /\ IF bucket = "" \/ path = "" THEN GoEnd(Reply(400, FALSE, 0), <<>>, index)
       ELSE IF outcome = "download" THEN GoEnd(Reply(500, FALSE, 0), <<>>, index)
       ELSE IF outcome = "tooLarge" THEN GoEnd(Reply(413, FALSE, 0), <<>>, index)
       ELSE IF outcome = "badPdf" THEN GoEnd(ErrorReply(0), <<>>, index)
       ELSE IF paged THEN GoExtract(1)
       ELSE /\ pc' = "merged"
            /\ tokenizer' = "live"
            /\ UNCHANGED <<p, i, calls, response, runs, inflight, sentTo>>

PageExtractedStops ==
    /\ pc = "extract"
    /\ UNCHANGED notIngest
    /\ UNCHANGED <<Request, vectors, index, upserted, failed, insertedCount,
                   preview, lostPages>>
    /\ IF doc[p] = 0 THEN GoEnd(DoneReply(insertedCount), upserted, index)
       ELSE GoEmbed(p, 0)

\* extractPageTextRobust(pdfProxy, p) returns the text of page p; a page
\* without text makes processPage return 0 and the page loop goes on.
PageExtracted ==
    /\ pc = "extract"
    /\ UNCHANGED notIngest
    /\ UNCHANGED <<Request, vectors, index, upserted, failed, insertedCount,
                   preview, lostPages>>
    /\ IF doc[p] = 0 THEN AfterPage(insertedCount, upserted, index)
       ELSE GoEmbed(p, 0)

\* Both extraction attempts of extractPageTextRobust(pdfProxy, p) throw: each
\* is caught inside the function, which returns "", and processPage returns 0.
PageExtractionFails ==
    /\ pc = "extract"
    /\ UNCHANGED notIngest
    /\ UNCHANGED <<Request, vectors, index, upserted, failed, insertedCount,
                   preview>>
    /\ lostPages' = lostPages \cup {p}
    /\ AfterPage(insertedCount, upserted, index)

\* extractText(pdfProxy, { mergePages: true }) returns, or throws.
MergedExtracted(throws) ==
    /\ pc = "merged"
    /\ UNCHANGED notIngest
    /\ UNCHANGED <<Request, vectors, index, upserted, failed, insertedCount,
                   preview, lostPages>>
    /\ IF throws THEN GoEnd(ErrorReply(insertedCount), upserted, index)
       ELSE IF NextWindow(1) > 0 THEN GoEmbed(NextWindow(1), 0)
       ELSE GoEnd(DoneReply(insertedCount), upserted, index)

\* geminiEmbeddingsBatch returns: the vectors are built and the upsert is sent,
\* unless the index configuration is missing.
EmbedReturns ==
    /\ pc = "embed"
    /\ geminiKey
    /\ UNCHANGED notIngest
    /\ UNCHANGED <<Request, index, upserted, failed, insertedCount, preview,
                   tokenizer, lostPages>>
    /\ LET batch == BatchAt(PageChunks(p), i, batchSize)
           texts == [k \in 1..Len(batch) |-> batch[k].text]
       IN vectors' = BuildVectors(EmbedResult(texts), batch, p, i)
    /\ calls' = LogCall(calls, Call("upsert", p, i, Len(vectors')))
    /\ inflight' = Await(inflight) \cup {Call("upsert", p, i, Len(vectors'))}
    /\ sentTo' = IF pineconeKey THEN sentTo \cup {"index"} ELSE sentTo
    /\ pc' = "upsert"
    /\ UNCHANGED <<p, i, response, runs>>

\* geminiEmbeddingsBatch throws: the catch block responds.
EmbedThrows ==
    /\ pc = "embed"
    /\ UNCHANGED notIngest
    /\ UNCHANGED <<Request, vectors, upserted, insertedCount, preview, lostPages>>
    /\ failed' = [op |-> "embed", at |-> Len(calls)]
    /\ index' = AbortIndex(index, upserted)
    /\ GoEnd(ErrorReply(insertedCount), upserted, index')

\* pineconeUpsertBatch returns: counters, sample, then the next batch, page or
\* the end.
UpsertReturns ==
    /\ pc = "upsert"
    /\ pineconeKey
    /\ UNCHANGED notIngest
    /\ UNCHANGED <<Request, failed, lostPages>>
    /\ index' = Upsert(index, vectors)
    /\ insertedCount' = insertedCount + Len(vectors)
    /\ preview' = AddPreview(preview, vectors, BatchAt(PageChunks(p), i, batchSize),
                             p, previewChunks)
    /\ upserted' = upserted \o vectors
    /\ vectors' = <<>>
    /\ IF NextOffset(i, batchSize) < doc[p]
       THEN GoEmbed(p, NextOffset(i, batchSize))
       ELSE AfterPage(insertedCount', upserted', index')

\* pineconeUpsertBatch throws: the catch block responds.
UpsertThrows ==
    /\ pc = "upsert"
    /\ UNCHANGED notIngest
    /\ UNCHANGED <<Request, vectors, upserted, insertedCount, preview, lostPages>>
    /\ failed' = [op |-> "upsert", at |-> Len(calls)]
    /\ index' = AbortIndex(index, upserted)
    /\ GoEnd(ErrorReply(insertedCount), upserted, index')

\* The caller posts the same document again, with a batch size of its choice.
NewRequest(b) ==
    /\ pc = "responded"
    /\ run < MaxRuns
    /\ UNCHANGED notIngest
    /\ UNCHANGED <<bucket, path, doc, paged, index, runs, previewChunks,
                   geminiKey, pineconeKey>>
    /\ run' = run + 1
    /\ batchSize' = b
    /\ pc' = "idle"
    /\ p' = 0
    /\ i' = 0
    /\ vectors' = <<>>
    /\ insertedCount' = 0
    /\ response' = NoReply
    /\ calls' = <<>>
    /\ upserted' = <<>>
    /\ failed' = NoFailure
    /\ preview' = <<>>
    /\ tokenizer' = "none"
    /\ inflight' = {}
    /\ sentTo' = {}
    /\ lostPages' = {}

\* any batchSize from 0 on and any previewChunks, negative ones too
InitAny ==
    /\ InitDocument
    /\ batchSize \in 0..MaxBatch
    /\ previewChunks \in {-1, 0, DefaultPreviewChunks}
    /\ geminiKey = TRUE
    /\ pineconeKey = TRUE

Next ==
    \/ \E o \in Outcomes : Receive(o)
    \/ PageExtracted
    \/ \E t \in BOOLEAN : MergedExtracted(t)
    \/ EmbedReturns
    \/ EmbedThrows
    \/ UpsertReturns
    \/ UpsertThrows

Spec == Init /\ [][Next]_vars

\* the same handler in an environment that may lack credentials
SpecConfig == InitConfig /\ [][Next]_vars

NextExtract ==
    \/ \E o \in Outcomes : Receive(o)
    \/ PageExtracted
    \/ PageExtractionFails
    \/ \E t \in BOOLEAN : MergedExtracted(t)
    \/ EmbedReturns
    \/ EmbedThrows
    \/ UpsertReturns
    \/ UpsertThrows

\* the same handler over a document whose pages may fail to extract
SpecExtract == InitDefault /\ [][NextExtract]_vars

NextRerun ==
    \/ Receive("ok")
    \/ PageExtracted
    \/ MergedExtracted(FALSE)
    \/ EmbedReturns
    \/ UpsertReturns
    \/ \E b \in 1..MaxBatch : NewRequest(b)

SpecRerun == InitDefault /\ [][NextRerun]_vars

\* every external call returns, sooner or later
NextReturning ==
    \/ \E o \in Outcomes : Receive(o)
    \/ PageExtracted
    \/ MergedExtracted(FALSE)
    \/ EmbedReturns
    \/ UpsertReturns

\* one request with any numeric parameters, every call returning
SpecAny == InitAny /\ [][NextReturning]_vars /\ WF_vars(NextReturning)

\* -------------------------------------------------------------- the query
\* a score of the index in thousandths: 0.854 is 854
Scores == {500, 846, 854}

\* metadata.path of a stored record; NoPath when the record has none
NoPath == "undefined"
StoredPaths == {"a.pdf", "b.pdf", NoPath}

StoredId(k) == "r" \o ToString(k)

\* The lists the index can hold for a query: distinct ids, best score first.
StoredLists ==
    {s \in UNION {[1..n -> [id : {"r"}, path : StoredPaths, score : Scores]]
                    : n \in 0..MaxStored} :
        \A k \in 1..(Len(s) - 1) : s[k].score >= s[k + 1].score}

WithIds(s) == [k \in 1..Len(s) |-> [s[k] EXCEPT !.id = StoredId(k)]]

QueryTopK == 10
ResultLimit == 5

\* Math.round((m.score ?? 0) * 100)
Percent(score) == (score + 5) \div 10

\* matches.map((m) => ({ id, name, path, excerpt, score })): name and excerpt
\* are read from the metadata and decide nothing
MapMatch(m) ==
    [id |-> m.id,
     path |-> IF m.path = NoPath THEN "no-path" ELSE m.path,
     score |-> Percent(m.score)]

\* const key = m.path || m.id
MatchKey(m) == IF m.path # "" THEN m.path ELSE m.id

\* uniqueMap after matches.forEach over ms[k..]: a later match takes the place
\* of the one with its key only with a strictly higher score
RECURSIVE Dedup(_, _, _)
Dedup(ms, k, acc) ==
    IF k > Len(ms) THEN acc
    ELSE LET m == ms[k]
             same == {j \in 1..Len(acc) : MatchKey(acc[j]) = MatchKey(m)}
         IN IF same = {} THEN Dedup(ms, k + 1, Append(acc, m))
            ELSE LET j == CHOOSE j \in same : TRUE
                 IN IF m.score > acc[j].score
                    THEN Dedup(ms, k + 1, [acc EXCEPT ![j] = m])
                    ELSE Dedup(ms, k + 1, acc)

\* deduplicateMatches(matches)
DeduplicateMatches(ms) == Dedup(ms, 1, <<>>)

\* what the index answers to { vector, topK }: its topK best records
IndexAnswer(k) == Slice(stored, 0, k)

InitQuery ==
    /\ ClientIdle
    /\ IngestIdle
    /\ SplitIdle
    /\ AssembleIdle
    /\ WindowsIdle
    /\ IdsIdle
    /\ UploadIdle
    /\ qpc = "idle"
    /\ \E s \in StoredLists : stored = WithIds(s)
    /\ topK \in 1..MaxTopK
    /\ asked = 0
    /\ search = <<>>
    /\ returned = <<>>
    /\ qerr = "none"

\* fetchMatchingResumes(requirements) up to await geminiEmbed([requirements])
StartQuery ==
    /\ qpc = "idle"
    /\ UNCHANGED notQuery
    /\ qpc' = "embedding"
    /\ UNCHANGED <<stored, topK, asked, search, returned, qerr>>

\* geminiEmbed returns: pineconeQuery(embedding, 10) is called
QueryEmbedReturns ==
    /\ qpc = "embedding"
    /\ UNCHANGED notQuery
    /\ asked' = QueryTopK
    /\ qpc' = "querying"
    /\ UNCHANGED <<stored, topK, search, returned, qerr>>

\* geminiEmbed throws: catch (err) { console.error(...); return []; }
QueryEmbedThrows ==
    /\ qpc = "embedding"
    /\ UNCHANGED notQuery
    /\ qerr' = "embed"
    /\ returned' = <<>>
    /\ qpc' = "returned"
    /\ UNCHANGED <<stored, topK, asked, search>>

\* pineconeQuery returns the body j: map, deduplicate, slice(0, 5)
IndexAnswers ==
    /\ qpc = "querying"
    /\ UNCHANGED notQuery
    /\ search' = IndexAnswer(asked)
    /\ returned' = Slice(DeduplicateMatches([k \in 1..Len(search') |->
                                                MapMatch(search'[k])]),
                         0, ResultLimit)
    /\ qpc' = "returned"
    /\ UNCHANGED <<stored, topK, asked, qerr>>

\* pineconeQuery throws `Pinecone query failed ...': the same catch
IndexFails ==
    /\ qpc = "querying"
    /\ UNCHANGED notQuery
    /\ qerr' = "query"
    /\ returned' = <<>>
    /\ qpc' = "returned"
    /\ UNCHANGED <<stored, topK, asked, search>>

NextQuery ==
    \/ StartQuery
    \/ QueryEmbedReturns
    \/ QueryEmbedThrows
    \/ IndexAnswers
    \/ IndexFails

SpecQuery == InitQuery /\ [][NextQuery]_vars

\* ----------------------------------------------------------- the splitter
\* A text is a sequence of characters: a letter, a full stop, a space, a
\* newline.
Letters == {"a"}
Whitespace == {" ", "\n"}
Chars == Letters \cup {"."} \cup Whitespace
Texts == UNION {[1..n -> Chars] : n \in 0..MaxLen}

\* two tokenizers: "chars" makes a token of every character, "words" of every
\* run of letters; both make one token of a space and the letter after it
Encodings == {"chars", "words"}

\* tokenizer.count(s)
Count(enc, s) ==
    Cardinality({k \in 1..Len(s) :
        IF s[k] = " " THEN ~(k < Len(s) /\ s[k + 1] \in Letters)
        ELSE IF s[k] \in Letters /\ enc = "words"
             THEN k = 1 \/ s[k - 1] \notin Letters
             ELSE TRUE})

\* s.trim()
Trim(s) ==
    IF \A k \in 1..Len(s) : s[k] \in Whitespace THEN <<>>
    ELSE LET a == CHOOSE a \in 1..Len(s) :
                    /\ s[a] \notin Whitespace
                    /\ \A k \in 1..(a - 1) : s[k] \in Whitespace
             b == CHOOSE b \in 1..Len(s) :
                    /\ s[b] \notin Whitespace
                    /\ \A k \in (b + 1)..Len(s) : s[k] \in Whitespace
         IN SubSeq(s, a, b)

\* sep occurs in s at position k
SepAt(s, sep, k) ==
    /\ k + Len(sep) - 1 <= Len(s)
    /\ SubSeq(s, k, k + Len(sep) - 1) = sep

\* s.split(sep) from position k on, cur being the piece read so far
RECURSIVE SplitFrom(_, _, _, _)
SplitFrom(s, sep, k, cur) ==
    IF k > Len(s) THEN <<cur>>
    ELSE IF SepAt(s, sep, k) THEN <<cur>> \o SplitFrom(s, sep, k + Len(sep), <<>>)
    ELSE SplitFrom(s, sep, k + 1, Append(cur, s[k]))

\* text.split(sep).map((p) => p.trim()).filter(Boolean)
SplitTrimmed(s, sep) ==
    LET pieces == SplitFrom(s, sep, 1, <<>>)
    IN SelectSeq([k \in 1..Len(pieces) |-> Trim(pieces[k])], LAMBDA x : x # <<>>)

\* const DEFAULT_SEPARATORS = ["\n\n", "\n", ". ", " ", ""]
DEFAULT_SEPARATORS == << <<"\n", "\n">>, <<"\n">>, <<".", " ">>, <<" ">>, <<>> >>

MinSliceChars == 200

\* the slices of approxChars characters, each trimmed, the empty ones dropped
CharSlices(s, approxChars) ==
    LET n == (Len(s) + approxChars - 1) \div approxChars
        parts == [j \in 1..n |-> Trim(Slice(s, (j - 1) * approxChars, j * approxChars))]
    IN SelectSeq(parts, LAMBDA x : x # <<>>)

Max(a, b) == IF a >= b THEN a ELSE b

\* the character-slicing branch of recursiveSplit
SliceByChars(txt, enc, maxTok) ==
    LET tokens == Count(enc, txt)
        charsPerToken == Max(1, Len(txt) \div Max(1, tokens))
        approxChars == Max(MinSliceChars, maxTok * charsPerToken)
    IN CharSlices(txt, approxChars)

RECURSIVE RecursiveSplit(_, _, _, _, _)
RECURSIVE SplitParts(_, _, _, _, _, _)

SplitPartsNoRecurse(parts, k, enc, maxTok, seps, level) == parts

\* the loop `for (const part of parts)' of recursiveSplit from part k on
SplitParts(parts, k, enc, maxTok, seps, level) ==
    IF k > Len(parts) THEN <<>>
    ELSE (IF Count(enc, parts[k]) <= maxTok THEN <<parts[k]>>
          ELSE RecursiveSplit(parts[k], enc, maxTok, seps, level + 1))
         \o SplitParts(parts, k + 1, enc, maxTok, seps, level)

RecursiveSplitNoFit(txt, enc, maxTok, seps, level) ==
    LET t == Trim(txt)
    IN IF t = <<>> THEN <<>>
       ELSE IF level >= Len(seps) - 1 THEN SliceByChars(t, enc, maxTok)
       ELSE SplitParts(SplitTrimmed(t, seps[level + 1]), 1, enc, maxTok, seps, level)

\* recursiveSplit(text, tokenizer, maxTokens, separators, level)
RecursiveSplit(txt, enc, maxTok, seps, level) ==
    LET t == Trim(txt)
    IN IF t = <<>> THEN <<>>
       ELSE IF Count(enc, t) <= maxTok THEN <<t>>
       ELSE IF level >= Len(seps) - 1 THEN SliceByChars(t, enc, maxTok)
       ELSE SplitParts(SplitTrimmed(t, seps[level + 1]), 1, enc, maxTok, seps, level)

InitSplit ==
    /\ ClientIdle
    /\ IngestIdle
    /\ QueryIdle
    /\ AssembleIdle
    /\ WindowsIdle
    /\ IdsIdle
    /\ UploadIdle
    /\ input \in Texts
    /\ encoding \in Encodings
    /\ maxTokens \in 0..MaxBudget
    /\ segments = <<>>
    /\ spc = "idle"

\* recursiveSplit(input, tokenizer, maxTokens) is called and returns
Split ==
    /\ spc = "idle"
    /\ UNCHANGED notSplit
    /\ segments' = RecursiveSplit(input, encoding, maxTokens, DEFAULT_SEPARATORS, 0)
    /\ spc' = "done"
    /\ UNCHANGED <<input, encoding, maxTokens>>

NextSplit == Split

SpecSplit == InitSplit /\ [][NextSplit]_vars

\* ---------------------------------------------------------- the assembler
MinPieceChars == 300

\* s.slice(-n) for n > 0
SliceTail(s, n) == IF n >= Len(s) THEN s ELSE SubSeq(s, Len(s) - n + 1, Len(s))

\* the buffer of assembleChunks: currentText, currentTokens and chunks
EmptyBuffer == [text |-> <<>>, tokens |-> 0, chunks |-> <<>>]

\* currentText ? `${currentText}\n\n${piece}` : piece
JoinText(cur, piece) == IF cur # <<>> THEN cur \o <<"\n", "\n">> \o piece ELSE piece

\* pushChunk()
PushChunk(buf, enc, overlap) ==
    IF buf.text = <<>> THEN buf
    ELSE LET out == Append(buf.chunks,
                           [text |-> Trim(buf.text), tokenCount |-> buf.tokens])
         IN IF overlap > 0
            THEN LET charsPerToken == Max(1, Len(buf.text) \div Max(1, buf.tokens))
                     seed == SliceTail(buf.text, overlap * charsPerToken)
                 IN [text |-> seed, tokens |-> Count(enc, seed), chunks |-> out]
            ELSE [text |-> <<>>, tokens |-> 0, chunks |-> out]

\* the loop over the pieces of a segment of chunkSizeTokens tokens or more,
\* from character off on
RECURSIVE AddPieces(_, _, _, _, _, _, _)
AddPieces(buf, seg, off, approxChars, enc, size, overlap) ==
    IF off >= Len(seg) THEN buf
    ELSE LET piece == Trim(Slice(seg, off, off + approxChars))
             b1 == IF buf.tokens + Count(enc, piece) > size
                   THEN PushChunk(buf, enc, overlap) ELSE buf
             joined == JoinText(b1.text, piece)
         IN AddPieces([b1 EXCEPT !.text = joined, !.tokens = Count(enc, joined)],
                      seg, off + approxChars, approxChars, enc, size, overlap)

PlaceSegmentDrop(buf, seg, enc, size, overlap) ==
    IF buf.tokens + Count(enc, seg) <= size
    THEN LET joined == JoinText(buf.text, seg)
         IN [buf EXCEPT !.text = joined, !.tokens = Count(enc, joined)]
    ELSE PushChunk(buf, enc, overlap)

\* a segment below chunkSizeTokens: append it to the buffer, or flush the
\* buffer and start a new one with the segment
PlaceSegment(buf, seg, enc, size, overlap) ==
    IF buf.tokens + Count(enc, seg) <= size
    THEN LET joined == JoinText(buf.text, seg)
         IN [buf EXCEPT !.text = joined, !.tokens = Count(enc, joined)]
    ELSE LET b1 == PushChunk(buf, enc, overlap)
         IN [b1 EXCEPT !.text = seg, !.tokens = Count(enc, seg)]

\* one turn of `for (const seg of segments)'
AddSegment(buf, seg, enc, size, overlap) ==
    LET segTokens == Count(enc, seg)
    IN IF segTokens >= size
       THEN LET charsPerToken == Max(1, Len(seg) \div Max(1, segTokens))
                approxChars == Max(MinPieceChars, size * charsPerToken)
            IN AddPieces(buf, seg, 0, approxChars, enc, size, overlap)
       ELSE PlaceSegment(buf, seg, enc, size, overlap)

RECURSIVE AddSegments(_, _, _, _, _, _)
AddSegments(buf, segs, k, enc, size, overlap) ==
    IF k > Len(segs) THEN buf
    ELSE AddSegments(AddSegment(buf, segs[k], enc, size, overlap),
                     segs, k + 1, enc, size, overlap)

\* assembleChunks(segments, tokenizer, chunkSizeTokens, overlapTokens)
AssembleChunks(segs, enc, size, overlap) ==
    PushChunk(AddSegments(EmptyBuffer, segs, 1, enc, size, overlap), enc, overlap).chunks

InitAssemble ==
    /\ ClientIdle
    /\ IngestIdle
    /\ QueryIdle
    /\ WindowsIdle
    /\ IdsIdle
    /\ UploadIdle
    /\ input \in Texts
    /\ encoding \in Encodings
    /\ maxTokens \in 1..MaxBudget
    /\ overlapTokens \in 0..MaxOverlap
    /\ segments = <<>>
    /\ spc = "idle"
    /\ assembled = <<>>
    /\ apc = "idle"

\* const segments = recursiveSplit(pageText, tokenizer, chunkSizeTokens);
\* const chunks = assembleChunks(segments, tokenizer, chunkSizeTokens, overlapTokens)
Chunk ==
    /\ apc = "idle"
    /\ UNCHANGED notAssemble
    /\ segments' = RecursiveSplit(input, encoding, maxTokens, DEFAULT_SEPARATORS, 0)
    /\ spc' = "done"
    /\ assembled' = AssembleChunks(segments', encoding, maxTokens, overlapTokens)
    /\ apc' = "done"
    /\ UNCHANGED <<input, encoding, maxTokens, overlapTokens>>

NextAssemble == Chunk

SpecAssemble == InitAssemble /\ [][NextAssemble]_vars

\* ------------------------------------------------- the pseudo-pagination
WindowChars == 1000000

\* fullText.length: whole windows, and a little more or a little less
WindowLengths ==
    {n * WindowChars + r :
        n \in 0..MaxWindows,
        r \in {0} \cup (1..MaxTail) \cup {WindowChars - t : t \in 1..MaxTail}}

NextCursorOverlapping(cur) == cur + WindowChars - 1

\* cursor += windowChars
NextCursor(cur) == cur + WindowChars

InitWindows ==
    /\ ClientIdle
    /\ IngestIdle
    /\ QueryIdle
    /\ SplitIdle
    /\ AssembleIdle
    /\ IdsIdle
    /\ UploadIdle
    /\ fullLength \in WindowLengths
    /\ cursor = 0
    /\ pseudoPage = 1
    /\ windows = <<>>

\* one turn of `while (cursor < fullText.length)': the slice
\* fullText.slice(cursor, cursor + windowChars) is processed as page
\* pseudoPage, its batch loop starting at i = 0
ProcessWindow ==
    /\ cursor < fullLength
    /\ UNCHANGED notWindows
    /\ windows' = Append(windows, [from |-> cursor,
                                   to |-> Min(cursor + WindowChars, fullLength),
                                   page |-> pseudoPage,
                                   firstChunk |-> ChunkIndex(0, 0)])
    /\ cursor' = NextCursor(cursor)
    /\ pseudoPage' = pseudoPage + 1
    /\ UNCHANGED fullLength

NextWindows == ProcessWindow

SpecWindows == InitWindows /\ [][NextWindows]_vars

\* ------------------------------------------------- the record id derivation
\* bucket and path strings, some of which hold the delimiter "::"
IdBuckets == {"pdf", "pdf::a"}
IdPaths == {"cv", "a::cv"}

\* the ingestion state other than the document's name
ingestRest == <<doc, paged, batchSize, run, pc, p, i, vectors, insertedCount,
                response, index, calls, upserted, failed, runs, previewChunks,
                preview, tokenizer, inflight, geminiKey, pineconeKey, sentTo,
                lostPages>>

InitIds ==
    /\ ClientIdle
    /\ IngestQuiet
    /\ QueryIdle
    /\ SplitIdle
    /\ AssembleIdle
    /\ WindowsIdle
    /\ UploadIdle
    /\ bucket \in IdBuckets
    /\ path \in IdPaths
    /\ derived = {}

\* const id = `${bucket}::${path}::p${p}::c${chunkIndex}` for chunk c of page
\* pg of the document bucket/path
DeriveId(pg, c) ==
    /\ Cardinality(derived) < MaxDerived
    /\ UNCHANGED notIds
    /\ UNCHANGED <<bucket, path, ingestRest>>
    /\ derived' = derived \cup {[bucket |-> bucket, path |-> path, page |-> pg,
                                 chunk |-> c, id |-> RecordId(pg, c)]}

\* the next request names another document
NextDocument(b, pth) ==
    /\ UNCHANGED notIds
    /\ UNCHANGED <<ingestRest, derived>>
    /\ bucket' = b
    /\ path' = pth

NextIds ==
    \/ \E pg \in 1..MaxPages, c \in 0..1 : DeriveId(pg, c)
    \/ \E b \in IdBuckets, pth \in IdPaths : NextDocument(b, pth)

SpecIds == InitIds /\ [][NextIds]_vars

\* ------------------------------------------------------------- the upload UI
NoFile == "none"
PdfFiles == {"cv.pdf", "cv2.pdf"}
OtherFiles == {"notes.txt"}

\* file.type !== "application/pdf" && !file.name.toLowerCase().endsWith(".pdf")
IsPdf(file) == file \in PdfFiles

InitUpload ==
    /\ ClientIdle
    /\ IngestIdle
    /\ QueryIdle
    /\ SplitIdle
    /\ AssembleIdle
    /\ WindowsIdle
    /\ IdsIdle
    /\ supabaseClient \in BOOLEAN
    /\ selectedFile = NoFile
    /\ uiStatus = "idle"
    /\ ops = {}
    /\ started = 0

\* handleSelect, from the file input's onChange and from onDropSelect
HandleSelect(file) ==
    /\ UNCHANGED notUpload
    /\ UNCHANGED <<supabaseClient, ops, started>>
    /\ IF file = NoFile
       THEN selectedFile' = NoFile /\ uiStatus' = "idle"
       ELSE IF ~IsPdf(file)
            THEN selectedFile' = NoFile /\ uiStatus' = "error"
            ELSE selectedFile' = file /\ uiStatus' = "ready"

\* the Cancel button, enabled while a file is selected
CancelSelection ==
    /\ selectedFile # NoFile
    /\ UNCHANGED notUpload
    /\ UNCHANGED <<supabaseClient, ops, started>>
    /\ selectedFile' = NoFile
    /\ uiStatus' = "idle"

\* the "Upload another" / "Try again" button of the done and error panels
Reset ==
    /\ uiStatus \in {"done", "error"}
    /\ UNCHANGED notUpload
    /\ UNCHANGED <<supabaseClient, ops, started>>
    /\ selectedFile' = NoFile
    /\ uiStatus' = "idle"

\* disabled={!selectedFile || status === "uploading" || status === "processing"}
UploadEnabled ==
    /\ selectedFile # NoFile
    /\ uiStatus \notin {"uploading", "processing"}

\* a click on Upload: uploadSelectedFile up to its first await
ClickUpload ==
    /\ UploadEnabled
    /\ started < MaxUploads
    /\ UNCHANGED notUpload
    /\ UNCHANGED <<supabaseClient, selectedFile>>
    /\ IF ~supabaseClient
       THEN /\ uiStatus' = "error"
            /\ UNCHANGED <<ops, started>>
       ELSE /\ uiStatus' = "uploading"
            /\ started' = started + 1
            /\ ops' = ops \cup {[id |-> started + 1, file |-> selectedFile,
                                 stage |-> "uploading"]}

\* the storage upload of one call returns: on an error the call ends, else it
\* goes on to the /api/extract-pdf request
StorageReturns(op, ok) ==
    /\ op \in ops
    /\ op.stage = "uploading"
    /\ UNCHANGED notUpload
    /\ UNCHANGED <<supabaseClient, selectedFile, started>>
    /\ IF ok
       THEN /\ uiStatus' = "processing"
            /\ ops' = (ops \ {op}) \cup {[op EXCEPT !.stage = "processing"]}
       ELSE /\ uiStatus' = "error"
            /\ ops' = ops \ {op}

\* the /api/extract-pdf request of one call returns (res.ok with a JSON body,
\* or a failure of any kind)
ProcessReturns(op, ok) ==
    /\ op \in ops
    /\ op.stage = "processing"
    /\ UNCHANGED notUpload
    /\ UNCHANGED <<supabaseClient, selectedFile, started>>
    /\ uiStatus' = IF ok THEN "done" ELSE "error"
    /\ ops' = ops \ {op}

NextUpload ==
    \/ \E file \in {NoFile} \cup PdfFiles \cup OtherFiles : HandleSelect(file)
    \/ CancelSelection
    \/ Reset
    \/ ClickUpload
    \/ \E op \in ops, ok \in BOOLEAN : StorageReturns(op, ok)
    \/ \E op \in ops, ok \in BOOLEAN : ProcessReturns(op, ok)

SpecUpload == InitUpload /\ [][NextUpload]_vars

\* ================================================================= claims

\* C1: an embedding client called with N texts returns a list of exactly N
\* vectors whenever it returns; every other end of the call is an error.
C1_ExactLength ==
    /\ (fn \in EmbedFns /\ cpc = "returned") => Len(result) = nTexts
    /\ (fn \in EmbedFns /\ cpc = "threw") => err.kind # "none"

C1_Witness ==
    /\ fn = "geminiEmbed"
    /\ cpc = "returned"
    /\ nTexts = 2
    /\ resp.count = 3

\* C2: an embedding client returns only when the upstream body holds exactly N
\* items, each of which normalizes to a vector, and result[i] is the vector of
\* the i-th upstream item.
C2_AlignedOrError ==
    (fn \in EmbedFns /\ cpc = "returned" /\ Len(sent) > 0) =>
        /\ resp.count = nTexts
        /\ resp.allNorm
        /\ result = [k \in 1..nTexts |-> k]

\* C3: with a ceiling maxRetries >= 1, geminiEmbeddingsBatch and
\* pineconeUpsertBatch send at most maxRetries requests, send a further request
\* only after a status >= 500, send none after an OK response, and throw after
\* one request when it is answered by a non-OK status below 500.
C3_RetryDiscipline ==
    (fn \in RetryFns /\ maxRetries >= 1) =>
        /\ attempt <= maxRetries
        /\ Len(sent) <= maxRetries
        /\ \A k \in 1..(Len(sent) - 1) : sent[k] >= 500
        /\ (Len(sent) > 0 /\ IsOk(sent[Len(sent)])) => cpc \in {"returned", "threw"}
        /\ (Len(sent) > 0 /\ ~IsOk(sent[1]) /\ sent[1] < 500) =>
                (cpc = "threw" /\ Len(sent) = 1 /\ attempt = 1)

C3_Witness ==
    /\ fn = "pineconeUpsertBatch"
    /\ maxRetries = 3
    /\ sent = <<503, 503, 200>>
    /\ cpc = "returned"

\* C4: when every one of the maxRetries attempts of geminiEmbeddingsBatch is
\* answered by a status >= 500, the call throws the "retries exhausted" error.
C4_ExhaustedIsDistinct ==
    (/\ fn = "geminiEmbeddingsBatch"
     /\ maxRetries >= 1
     /\ cpc = "threw"
     /\ Len(sent) = maxRetries
     /\ \A k \in 1..Len(sent) : sent[k] >= 500)
        => err.kind = "exhausted"

\* C5: once an embed or upsert call has thrown, the handler has responded with
\* an error, the call that threw is the last call it made, and no upsert call
\* was made for a batch whose embed threw.
C5_AbortStopsCalls ==
    failed.op # "none" =>
        /\ pc = "responded"
        /\ ~response.ok
        /\ response.status >= 400
        /\ Len(calls) = failed.at
        /\ calls[Len(calls)].op = failed.op
        /\ failed.op = "embed" =>
                ~\E k \in 1..Len(calls) :
                    /\ calls[k].op = "upsert"
                    /\ calls[k].page = calls[Len(calls)].page
                    /\ calls[k].offset = calls[Len(calls)].offset

C5_Witness ==
    /\ failed.op = "embed"
    /\ pc = "responded"
    /\ Len(upserted) > 0
    /\ p < Len(doc)
    /\ doc[p + 1] > 0

\* C6: every record of an acknowledged upsert of this request is stored in the
\* index as it was given, at every point of the request and after an abort.
C6_NoRollback ==
    \A k \in 1..Len(upserted) :
        /\ upserted[k].id \in DOMAIN index
        /\ index[upserted[k].id] = upserted[k]

C6_Witness ==
    /\ failed.op = "upsert"
    /\ pc = "responded"
    /\ Len(upserted) >= 2
    /\ Cardinality(DOMAIN index) >= 2

\* C7: two completed ingestions of the document with the same batch size upsert
\* the same set of record ids, and the index holds as many records after the
\* later one as after the earlier one.
C7_Idempotent ==
    \A a \in 1..Len(runs), b \in 1..Len(runs) :
        (a < b /\ runs[a].ok /\ runs[b].ok /\ runs[a].batchSize = runs[b].batchSize) =>
            /\ {r.id : r \in runs[a].recs} = {r.id : r \in runs[b].recs}
            /\ runs[a].size = runs[b].size

C7_Witness ==
    /\ Len(runs) = 2
    /\ runs[1].ok /\ runs[2].ok
    /\ runs[1].batchSize = runs[2].batchSize
    /\ runs[2].size >= 3

\* C8: every record passed to upsert has the id
\* bucket::path::p{page}::c{chunkIndex} of the page in process and of its
\* 0-based position in the page's chunk list, carries the same bucket, path,
\* page and chunk_index in its metadata, and shares its id with no other
\* record upserted by the request.
C8_RecordIds ==
    LET all == upserted \o vectors IN
    /\ \A k \in 1..Len(all) :
        LET r == all[k] IN
        /\ r.id = bucket \o "::" \o path \o "::p" \o ToString(r.metadata.page)
                    \o "::c" \o ToString(r.metadata.chunk_index)
        /\ r.metadata.bucket = bucket
        /\ r.metadata.path = path
        /\ r.metadata.page \in 1..Len(doc)
        /\ r.metadata.chunk_index \in 0..(doc[r.metadata.page] - 1)
    /\ \A k \in 1..Len(vectors) :
        /\ vectors[k].metadata.page = p
        /\ vectors[k].metadata.chunk_index = i + k - 1
    /\ \A j \in 1..Len(all), k \in 1..Len(all) : j # k => all[j].id # all[k].id

C8_Witness ==
    /\ pc = "upsert"
    /\ p >= 2
    /\ i > 0
    /\ Len(upserted) >= 2
    /\ Len(vectors) = 2

CeilDiv(n, b) == (n + b - 1) \div b

ExpectedSizes(n, b) ==
    [k \in 1..CeilDiv(n, b) |-> IF k * b <= n THEN b ELSE n - (k - 1) * b]

SizesOf(op, pg) ==
    LET mine == SelectSeq(calls, LAMBDA c : c.op = op /\ c.page = pg)
    IN [k \in 1..Len(mine) |-> mine[k].size]

PageDone(pg) == pg < p \/ (pc = "responded" /\ response.ok)

\* C9: for a page of n >= 1 chunks whose batch loop has ended, the handler made
\* ceil(n/b) embed calls and ceil(n/b) upsert calls, each of b chunks except a
\* last one of the remainder.
C9_BatchCounts ==
    \A pg \in 1..Len(doc) :
        (doc[pg] >= 1 /\ PageDone(pg)) =>
            /\ SizesOf("embed", pg) = ExpectedSizes(doc[pg], batchSize)
            /\ SizesOf("upsert", pg) = ExpectedSizes(doc[pg], batchSize)

C9_Witness ==
    /\ doc = <<5>>
    /\ batchSize = 2
    /\ pc = "responded"
    /\ response.ok
    /\ SizesOf("upsert", 1) = <<2, 2, 1>>

\* C10: two completed ingestions of the document, whatever their batch sizes,
\* upsert the same set of (id, metadata) records.
C10_BatchSizeIrrelevant ==
    \A a \in 1..Len(runs), b \in 1..Len(runs) :
        (runs[a].ok /\ runs[b].ok) => runs[a].recs = runs[b].recs

C10_Witness ==
    /\ Len(runs) = 2
    /\ runs[1].ok /\ runs[2].ok
    /\ runs[1].batchSize = 1
    /\ runs[2].batchSize = 2
    /\ Cardinality(runs[2].recs) >= 3

\* C11: at every point of an ingestion the sample holds at most previewChunks
\* entries, and the sample of a success response is the first
\* min(totalInserted, previewChunks) upserted records, in upsert order.
C11_PreviewBounded ==
    /\ Len(preview) <= previewChunks
    /\ Len(preview) <= Len(upserted)
    /\ \A k \in 1..Len(preview) :
        /\ preview[k].id = upserted[k].id
        /\ preview[k].page = upserted[k].metadata.page
        /\ preview[k].tokenCount = upserted[k].metadata.token_count
    /\ (pc = "responded" /\ response.ok) =>
        /\ response.totalInserted = Len(upserted)
        /\ Len(preview) = Min(response.totalInserted, previewChunks)

C11_Witness ==
    /\ pc = "responded"
    /\ response.ok
    /\ previewChunks = 2
    /\ Len(preview) = 2
    /\ response.totalInserted > 2
    /\ preview[1].page # preview[2].page

\* C12: a page without text causes no embed and no upsert call, and the pages
\* after it are processed all the same: a request that succeeds has upserted
\* the chunks of every page that has some, and nothing else.
C12_EmptyPageSkipped ==
    /\ \A k \in 1..Len(calls) : doc[calls[k].page] > 0 /\ calls[k].size > 0
    /\ (pc = "responded" /\ response.ok) =>
        /\ {upserted[k].metadata.page : k \in 1..Len(upserted)}
               = {pg \in 1..Len(doc) : doc[pg] > 0}
        /\ \A pg \in 1..Len(doc) :
               Cardinality({k \in 1..Len(upserted) : upserted[k].metadata.page = pg})
                   = doc[pg]
        /\ response.totalInserted = Sum(doc)

C12_Witness ==
    /\ paged
    /\ Len(doc) = 3
    /\ doc[1] > 0 /\ doc[2] = 0 /\ doc[3] > 0
    /\ pc = "responded"
    /\ response.ok
    /\ {calls[k].page : k \in 1..Len(calls)} = {1, 3}
    /\ Len(upserted) = doc[1] + doc[3]

\* C13: when a request has ended, the tokenizer it created has been released,
\* whether the request succeeded or an embed, upsert or extraction call threw.
C13_TokenizerReleased == pc = "responded" => tokenizer # "live"

\* C14: at most one embed or upsert call is outstanding at any time; calls go
\* embed, upsert, embed, upsert, ...; an upsert is for the batch of the embed
\* just before it, and the embed after an upsert is for a later batch of the
\* same page or for the first batch of a later page.
C14_OneCallAtATime ==
    /\ Cardinality(inflight) <= 1
    /\ pc \in {"embed", "upsert"} => inflight = {calls[Len(calls)]}
    /\ \A k \in 1..Len(calls) :
        calls[k].op = (IF k % 2 = 1 THEN "embed" ELSE "upsert")
    /\ \A k \in 1..(Len(calls) - 1) :
        IF calls[k].op = "embed"
        THEN /\ calls[k + 1].page = calls[k].page
             /\ calls[k + 1].offset = calls[k].offset
        ELSE \/ /\ calls[k + 1].page = calls[k].page
                /\ calls[k + 1].offset > calls[k].offset
             \/ /\ calls[k + 1].page > calls[k].page
                /\ calls[k + 1].offset = 0

C14_Witness ==
    /\ Len(calls) >= 6
    /\ pc = "upsert"
    /\ \E k \in 1..Len(calls) : calls[k].page = calls[1].page /\ calls[k].offset > 0
    /\ calls[Len(calls)].page > calls[1].page

\* C15: with a credential missing (the embedding key, or the index URL or key)
\* the request ends in an error without any HTTP request having gone to the
\* embedding service or to the index.
C15_FailsBeforeAnyRequest ==
    (~geminiKey \/ ~pineconeKey) =>
        /\ sentTo = {}
        /\ (pc = "responded" /\ calls # <<>>) => ~response.ok

\* C16: a page whose text extraction fails ends the request: the response is
\* an error and no later page is processed.
C16_ExtractionFailureAborts ==
    \A pg \in lostPages :
        /\ p = pg
        /\ pc = "responded"
        /\ ~response.ok

\* C17: a query for topK matches asks the index for topK neighbours and
\* returns the index's matches as they are: the same items, as many, in the
\* same order, with the scores the index reported.
C17_MatchesVerbatim ==
    (qpc = "returned" /\ qerr = "none") =>
        /\ asked = topK
        /\ Len(returned) = Min(topK, Len(stored))
        /\ \A k \in 1..Len(returned) :
            /\ returned[k].id = stored[k].id
            /\ returned[k].score = stored[k].score

\* C18: when the query embedding or the index query fails the caller gets a
\* failure, never a list of matches in its place.
C18_QueryErrorSurfaces == qerr # "none" => qpc # "returned"

\* the characters of s that are not whitespace, in order
NonWhitespace(s) == SelectSeq(s, LAMBDA c : c \notin Whitespace)

RECURSIVE Concat(_, _)
Concat(segs, k) == IF k > Len(segs) THEN <<>> ELSE segs[k] \o Concat(segs, k + 1)

C20_NoCharacterLost ==
    spc = "done" => NonWhitespace(Concat(segments, 1)) = NonWhitespace(input)

\* C21: every string recursiveSplit returns is non-empty and trimmed, and one
\* that is over the budget comes from the character slicing, which is reached
\* only by a text no separator divides: it holds no whitespace.
C21_SegmentsWithinBudget ==
    spc = "done" =>
        \A k \in 1..Len(segments) :
            /\ segments[k] # <<>>
            /\ segments[k][1] \notin Whitespace
            /\ segments[k][Len(segments[k])] \notin Whitespace
            /\ Count(encoding, segments[k]) > maxTokens =>
                   \A c \in 1..Len(segments[k]) : segments[k][c] \notin Whitespace

C21_Witness ==
    /\ spc = "done"
    /\ maxTokens >= 2
    /\ Len(segments) >= 2
    /\ Count(encoding, segments[1]) > maxTokens
    /\ Count(encoding, segments[2]) <= maxTokens

\* chunk text b begins with a non-empty piece that chunk text a ends with
BeginsWithTailOf(b, a) ==
    \E n \in 1..Min(Len(a), Len(b)) : SubSeq(b, 1, n) = SliceTail(a, n)

\* C22: with overlapTokens > 0 and two chunks or more, every chunk after the
\* first begins with a non-empty piece of the tail of the chunk before it.
C22_OverlapObservable ==
    (apc = "done" /\ overlapTokens > 0 /\ Len(assembled) >= 2) =>
        \A k \in 2..Len(assembled) :
            BeginsWithTailOf(assembled[k].text, assembled[k - 1].text)

\* the segments from..to joined by blank lines
RECURSIVE JoinRun(_, _, _)
JoinRun(segs, from, to) ==
    IF from > to THEN <<>>
    ELSE IF from = to THEN segs[from]
    ELSE segs[from] \o <<"\n", "\n">> \o JoinRun(segs, from + 1, to)

\* chunks k, k + 1, ... are, one after the other, the runs of segs from
\* segment `from' on, up to the last segment
RECURSIVE CoversFrom(_, _, _, _)
CoversFrom(cs, k, segs, from) ==
    IF k > Len(cs) THEN from = Len(segs) + 1
    ELSE \E to \in from..Len(segs) :
            /\ cs[k].text = JoinRun(segs, from, to)
            /\ CoversFrom(cs, k + 1, segs, to + 1)

AllSegmentsBelowSize ==
    \A k \in 1..Len(segments) : Count(encoding, segments[k]) < maxTokens

\* C23: with overlapTokens = 0 and every segment below the chunk size, the
\* chunks are consecutive runs of the segments, each segment in exactly one
\* chunk, in the original order.
C23_ChunksPartitionSegments ==
    (apc = "done" /\ overlapTokens = 0 /\ AllSegmentsBelowSize) =>
        CoversFrom(assembled, 1, segments, 1)

C23_Witness ==
    /\ apc = "done"
    /\ overlapTokens = 0
    /\ AllSegmentsBelowSize
    /\ Len(segments) = 3
    /\ Len(assembled) = 2
    /\ assembled[1].text = JoinRun(segments, 1, 2)

\* C24: when every segment has fewer tokens than chunkSizeTokens, every chunk
\* has tokenCount <= chunkSizeTokens.
C24_ChunkWithinSize ==
    (apc = "done" /\ AllSegmentsBelowSize) =>
        \A k \in 1..Len(assembled) : assembled[k].tokenCount <= maxTokens

\* C25: every chunk's tokenCount is the token count of the chunk's text.
C25_TokenCountIsCount ==
    apc = "done" =>
        \A k \in 1..Len(assembled) :
            assembled[k].tokenCount = Count(encoding, assembled[k].text)

\* the record r carries the vector, the token count and the preview of the
\* chunk its page and chunk_index name
CarriesItsChunk(r) ==
    LET chunk == ChunkOf(r.metadata.page, r.metadata.chunk_index)
    IN /\ r.values = [of |-> chunk.text]
       /\ r.metadata.token_count = chunk.tokenCount
       /\ r.metadata.preview = Slice(chunk.text, 0, PreviewChars)

\* C26: the record built from the vector at position k of a batch carries the
\* token count and the preview of the chunk at position k of the batch, whose
\* text was sent at position k of the embed request, and chunk_index = batch
\* offset + k.
C26_ProvenanceAligned ==
    /\ \A k \in 1..Len(vectors) :
        /\ vectors[k].metadata.page = p
        /\ vectors[k].metadata.chunk_index = i + (k - 1)
        /\ CarriesItsChunk(vectors[k])
    /\ \A k \in 1..Len(upserted) : CarriesItsChunk(upserted[k])

C26_Witness ==
    /\ pc = "upsert"
    /\ i > 0
    /\ Len(vectors) >= 2
    /\ Len(upserted) >= 2

\* C27: the merged text is processed in windows of WindowChars characters,
\* each starting where the one before ended, the first at character 0 and
\* the last ending at the end of the text; window k is page k and its chunk
\* indexes start at 0.
C27_WindowsCoverText ==
    /\ \A k \in 1..Len(windows) :
        /\ windows[k].page = k
        /\ windows[k].firstChunk = 0
        /\ windows[k].from = (IF k = 1 THEN 0 ELSE windows[k - 1].to)
        /\ windows[k].from < windows[k].to
        /\ windows[k].to - windows[k].from <= WindowChars
        /\ windows[k].to <= fullLength
    /\ \A k \in 1..(Len(windows) - 1) :
        windows[k].to - windows[k].from = WindowChars
    /\ cursor >= fullLength =>
        IF fullLength = 0 THEN windows = <<>>
        ELSE windows[Len(windows)].to = fullLength

C27_Witness ==
    /\ cursor >= fullLength
    /\ Len(windows) >= 3
    /\ windows[Len(windows)].to - windows[Len(windows)].from < WindowChars

\* C28: whatever batchSize and previewChunks the request carries, when every
\* external call returns the handler responds.
C28_Terminates == <>(pc = "responded")

\* C29: two records whose (bucket, path, page, chunk index) differ never get
\* the same id, whatever the bucket and path strings.
C29_IdsInjective ==
    \A a \in derived, b \in derived : a.id = b.id => a = b

\* C30: at most one upload-and-process request of the upload UI is in flight
\* at any time, so none is started while an earlier one has not finished.
C30_OneUploadAtATime ==
    Cardinality(ops) <= 1

====
